---- MODULE Spec2Model ----
(***************************************************************************)
(* The recursive-descent parser of SimpleCompiler (src/parser/parser.cpp)   *)
(* and the AST it builds (ast.h).                                           *)
(*                                                                          *)
(* The token cursor is the index `pos` of the lookahead in the input `toks`:*)
(* next() asks the lexer for one more token, match_token() peeks.  Every    *)
(* grammar rule is an operator from the cursor to a result record           *)
(*   [ok, ast, pos, code, errs]                                             *)
(* ok = FALSE stands for a call of exit(code) somewhere below the rule,     *)
(* errs counts the calls of error->display_err() made before it.            *)
(* The driver loop of Parser::program is the state machine proper: one      *)
(* action per branch of the loop.                                           *)
(***************************************************************************)
EXTENDS Integers, Sequences, FiniteSets, TLC

VARIABLES
    toks,        \* the input: what the lexer will deliver, in order
    eofWithLast, \* lexer: is_done() already holds once the last token is delivered
    pos,         \* number of lexing() calls so far = index of the lookahead
    nodes,       \* Parser::program's local `nodes`
    ret,         \* what the entry point returned (Null until then)
    status,      \* "init", "running", "done", "failed"
    exitCode,    \* argument of exit() when status = "failed"
    errs         \* number of error->display_err() calls

pvars == <<toks, eofWithLast, pos, nodes, ret, status, exitCode, errs>>

----------------------------------------------------------------------------
(* Bounds of the checked input families.                                    *)

MaxExprLen == 5
MaxChainOps == 3
MaxStmtChunks == 5
MaxIfChunks == 6
MaxInitLen == 7
MaxProgChunks == 4
MaxDeclChunks == 5
MaxCtrlLen == 4
MaxRelLen == 5
MaxParenChunks == 6
MaxParams == 2
MaxParamGroups == 2
MaxLiveChunks == 3

----------------------------------------------------------------------------
(* Tokens.  A token is [tag, val]; val is the name of an ID and the value   *)
(* of a NUM.                                                                *)

EndToken == [tag |-> "END", val |-> 0]

\* Lexer::lexing as the parser sees it: the i-th call returns the i-th token
\* of the input, and the END token once the input is exhausted.
Tok(i) ==
    IF i \in 1..Len(toks) THEN toks[i] ELSE EndToken

\* tag_to_op
tag_to_op(tag) ==
    CASE tag = "ADD"  -> "add_op"
      [] tag = "SUB"  -> "sub_op"
      [] tag = "MUL"  -> "mul_op"
      [] tag = "DIV"  -> "div_op"
      [] tag = "MOD"  -> "mod_op"
      [] tag = "GT"   -> "gt_op"
      [] tag = "GE"   -> "ge_op"
      [] tag = "LT"   -> "lt_op"
      [] tag = "LE"   -> "le_op"
      [] tag = "EQU"  -> "equ_op"
      [] tag = "NEQU" -> "nequ_op"
      [] tag = "AND"  -> "and_op"
      [] tag = "OR"   -> "or_op"
      [] tag = "NOT"  -> "not_op"
      [] OTHER        -> "no_op"

\* next that hands out the token before the lookahead again
next_rewind(i) == i - 1

\* Parser::next: token = lexer.lexing()
next(i) == i + 1

\* Parser::match_token
match_token(i, tag) == Tok(i).tag = tag

\* Parser::is_done = lexer.is_done()
is_done(i) ==
    IF eofWithLast THEN i >= Len(toks) ELSE i > Len(toks)

----------------------------------------------------------------------------
(* AST nodes (ast.h).  A null ASTPtr is Null.                               *)

Null == [kind |-> "Null"]

CompUnitAST(u) == [kind |-> "CompUnit", units |-> u]
StmtAST(s) == [kind |-> "Stmt", stmt |-> s]
FuncDefAST(t, n, p, b) ==
    [kind |-> "FuncDef", type |-> t, name |-> n, params |-> p, body |-> b]
FuncCallAST(n, a) == [kind |-> "FuncCall", name |-> n, args |-> a]
VarDeclAST(i, v) == [kind |-> "VarDecl", vars |-> v, isConst |-> i]
VarDefAST(i, v, init) ==
    [kind |-> "VarDef", var |-> v, initVal |-> init, isConst |-> i]
IdAST(n, t, i, d) ==
    [kind |-> "Id", name |-> n, type |-> t, dim |-> d, isConst |-> i]
InitValAST(t, v) == [kind |-> "InitVal", type |-> t, values |-> v]
BlockAST(s) == [kind |-> "Block", stmts |-> s]
BinaryAST(o, l, r) == [kind |-> "Binary", op |-> o, left |-> l, right |-> r]
UnaryAST(o, e) == [kind |-> "Unary", op |-> o, exp |-> e]
NumAST(v) == [kind |-> "Num", val |-> v]
IfAST(c, t, e) ==
    [kind |-> "If", conditionExp |-> c, thenAST |-> t, elseAST |-> e]
WhileAST(c, b) == [kind |-> "While", conditionExp |-> c, body |-> b]
ControlAST(t, r) == [kind |-> "Control", type |-> t, returnStmt |-> r]
AssignAST(l, r) == [kind |-> "Assign", left |-> l, right |-> r]
LValAST(n, t, p) == [kind |-> "LVal", name |-> n, type |-> t, position |-> p]
EmptyAST == [kind |-> "Empty"]

----------------------------------------------------------------------------
(* Results of grammar rules.                                                *)

\* the rule returned `ast` with the lookahead at index i
Ok(ast, i) == [ok |-> TRUE, ast |-> ast, pos |-> i, code |-> 0, errs |-> 0]

\* exit(code) with the lookahead at index i, without a diagnostic
Exit(code, i) ==
    [ok |-> FALSE, ast |-> Null, pos |-> i, code |-> code, errs |-> 0]

\* error->display_err(); exit(code)
ErrExit(code, i) ==
    [ok |-> FALSE, ast |-> Null, pos |-> i, code |-> code, errs |-> 1]

\* exit(code), after error->display_err() when diag holds
Fail(diag, code, i) == IF diag THEN ErrExit(code, i) ELSE Exit(code, i)

\* Sequencing: the callee's result r is computed once; when the callee
\* called exit the caller never resumes, otherwise it goes on as K(r).
Then(r, K(_)) ==
    CHOOSE y \in {IF x.ok THEN K(x) ELSE x : x \in {r}} : TRUE

\* `if (!p) exit(code)` applied to the result r of a callee
NotNull(r, code) ==
    Then(r, LAMBDA x : IF x.ast = Null THEN Exit(code, x.pos) ELSE x)

\* `if (!p) { error->display_err(); exit(code); }`
NotNullErr(r, code) ==
    Then(r, LAMBDA x : IF x.ast = Null THEN ErrExit(code, x.pos) ELSE x)

----------------------------------------------------------------------------
(* Expression engine: Parser::binary and its six tiers, Parser::unary.      *)

RECURSIVE binary(_, _)
RECURSIVE binary_loop(_, _, _)
RECURSIVE binary_relation(_)
RECURSIVE binary_eq(_)
RECURSIVE binary_add(_)
RECURSIVE binary_mul(_)
RECURSIVE binary_and(_)
RECURSIVE binary_or(_)
RECURSIVE unary(_)
RECURSIVE call_params(_, _)
RECURSIVE lval_position(_, _)

\* tier_ops with the additive and the multiplicative operator sets exchanged
tier_ops_swapped(tier) ==
    CASE tier = "relation" -> {"gt_op", "ge_op", "le_op", "le_op"}
      [] tier = "eq"       -> {"equ_op", "nequ_op"}
      [] tier = "add"      -> {"mul_op", "div_op", "mod_op"}
      [] tier = "mul"      -> {"add_op", "sub_op"}
      [] tier = "and"      -> {"and_op"}
      [] tier = "or"       -> {"or_op"}

\* tier_ops with lt among the relational operators
tier_ops_with_lt(tier) ==
    CASE tier = "relation" -> {"gt_op", "ge_op", "lt_op", "le_op"}
      [] tier = "eq"       -> {"equ_op", "nequ_op"}
      [] tier = "add"      -> {"add_op", "sub_op"}
      [] tier = "mul"      -> {"mul_op", "div_op", "mod_op"}
      [] tier = "and"      -> {"and_op"}
      [] tier = "or"       -> {"or_op"}

\* the initializer_list<Operator> each tier passes to Parser::binary
tier_ops(tier) ==
    CASE tier = "relation" -> {"gt_op", "ge_op", "le_op", "le_op"}
      [] tier = "eq"       -> {"equ_op", "nequ_op"}
      [] tier = "add"      -> {"add_op", "sub_op"}
      [] tier = "mul"      -> {"mul_op", "div_op", "mod_op"}
      [] tier = "and"      -> {"and_op"}
      [] tier = "or"       -> {"or_op"}

\* the `parser` lambda each tier passes to Parser::binary
tier_parser(tier, i) ==
    CASE tier = "relation" -> binary_add(i)
      [] tier = "eq"       -> binary_relation(i)
      [] tier = "add"      -> binary_mul(i)
      [] tier = "mul"      -> unary(i)
      [] tier = "and"      -> binary_eq(i)
      [] tier = "or"       -> binary_and(i)

\* binary_loop folding to the right: the right operand is parsed by the tier
\* itself instead of the next tier
binary_loop_right(tier, lhs, i) ==
    IF tag_to_op(Tok(i).tag) \in tier_ops(tier)
    THEN Then(NotNull(binary(tier, next(i)), 101),
              LAMBDA rhs :
                  Ok(BinaryAST(tag_to_op(Tok(i).tag), lhs, rhs.ast), rhs.pos))
    ELSE Ok(lhs, i)

\* the while loop of Parser::binary, entered with lhs built and lookahead i
binary_loop(tier, lhs, i) ==
    IF tag_to_op(Tok(i).tag) \in tier_ops(tier)
    THEN Then(NotNull(tier_parser(tier, next(i)), 101),
              LAMBDA rhs :
                  binary_loop(tier,
                              BinaryAST(tag_to_op(Tok(i).tag), lhs, rhs.ast),
                              rhs.pos))
    ELSE Ok(lhs, i)

\* Parser::binary
binary(tier, i) ==
    Then(NotNull(tier_parser(tier, i), 100),
         LAMBDA lhs : binary_loop(tier, lhs.ast, lhs.pos))

binary_relation(i) == binary("relation", i)
binary_eq(i) == binary("eq", i)
binary_add(i) == binary("add", i)
binary_mul(i) == binary("mul", i)
binary_and(i) == binary("and", i)
binary_or(i) == binary("or", i)

\* the `while (true)` argument loop of a function call; lookahead i is the
\* first token of the next argument, params the arguments so far
call_params(params, i) ==
    Then(NotNull(binary_add(i), 106),
         LAMBDA param :
             IF ~match_token(param.pos, "COMMA")
             THEN Ok(Append(params, param.ast), param.pos)
             ELSE call_params(Append(params, param.ast), next(param.pos)))

\* the `while (match_token(LBRACKET))` index loop of an array LVal
lval_position(position, i) ==
    IF match_token(i, "LBRACKET")
    THEN Then(binary_add(next(i)),
              LAMBDA sub_position :
                  IF ~match_token(sub_position.pos, "RBRACKET")
                  THEN Exit(108, sub_position.pos)
                  ELSE lval_position(Append(position, sub_position.ast),
                                     next(sub_position.pos)))
    ELSE Ok(position, i)

\* a prefix operator of Parser::unary: next(); exp = unary()
unary_prefix(op, code, i) ==
    Then(NotNull(unary(next(i)), code),
         LAMBDA exp : Ok(UnaryAST(op, exp.ast), exp.pos))

\* Parser::unary, the identifier branch: call, indexed LVal or bare LVal
unary_id(i) ==
    IF match_token(next(i), "LPAREN")
    THEN IF match_token(next(next(i)), "RPAREN")
         THEN Ok(FuncCallAST(Tok(i).val, <<>>), next(next(next(i))))
         ELSE Then(call_params(<<>>, next(next(i))),
                   LAMBDA params :
                       IF ~match_token(params.pos, "RPAREN")
                       THEN Exit(107, params.pos)
                       ELSE Ok(FuncCallAST(Tok(i).val, params.ast),
                               next(params.pos)))
    ELSE IF match_token(next(i), "LBRACKET")
    THEN Then(lval_position(<<>>, next(i)),
              LAMBDA position :
                  Ok(LValAST(Tok(i).val, "array_t", position.ast),
                     position.pos))
    ELSE Ok(LValAST(Tok(i).val, "var_t", <<>>), next(i))

\* unary that keeps a node of its own for a parenthesized expression
unary_paren_wrapped(i) ==
    IF match_token(i, "LPAREN")
    THEN Then(binary_add(next(i)),
              LAMBDA exp :
                  IF Tok(exp.pos).tag # "RPAREN" THEN Exit(102, exp.pos)
                  ELSE Ok(UnaryAST("add_op", exp.ast), next(exp.pos)))
    ELSE IF match_token(i, "NUM") THEN Ok(NumAST(Tok(i).val), next(i))
    ELSE IF match_token(i, "ADD") THEN unary_prefix("add_op", 103, i)
    ELSE IF match_token(i, "SUB") THEN unary_prefix("sub_op", 104, i)
    ELSE IF match_token(i, "NOT") THEN unary_prefix("not_op", 105, i)
    ELSE IF match_token(i, "ID") THEN unary_id(i)
    ELSE Exit(55, i)

\* Parser::unary
unary(i) ==
    IF match_token(i, "LPAREN")
    THEN Then(binary_add(next(i)),
              LAMBDA exp :
                  IF Tok(exp.pos).tag # "RPAREN" THEN Exit(102, exp.pos)
                  ELSE Ok(exp.ast, next(exp.pos)))
    ELSE IF match_token(i, "NUM") THEN Ok(NumAST(Tok(i).val), next(i))
    ELSE IF match_token(i, "ADD") THEN unary_prefix("add_op", 103, i)
    ELSE IF match_token(i, "SUB") THEN unary_prefix("sub_op", 104, i)
    ELSE IF match_token(i, "NOT") THEN unary_prefix("not_op", 105, i)
    ELSE IF match_token(i, "ID") THEN unary_id(i)
    ELSE Exit(55, i)

----------------------------------------------------------------------------
(* Statements, declarations, initializers, blocks, function definitions.    *)

RECURSIVE statement(_)
RECURSIVE if_else(_)
RECURSIVE while_loop(_)
RECURSIVE block(_)
RECURSIVE block_loop(_, _)
RECURSIVE init_val(_)
RECURSIVE init_val_list(_, _)
RECURSIVE var_def_dims(_, _)
RECURSIVE var_decl_rest(_, _, _)
RECURSIVE params_loop(_, _, _)
RECURSIVE param_dims(_, _, _)

\* the switch of Parser::statement from the keyword to the Control kind
control_of(tag) ==
    CASE tag = "KW_BREAK"    -> "break_c"
      [] tag = "KW_CONTINUE" -> "continue_c"
      [] tag = "KW_RETURN"   -> "return_c"

\* Parser::statement, the break / continue / return branch
statement_control(i) ==
    IF Tok(next(i)).tag = "SEMICON"
    THEN Ok(StmtAST(ControlAST(control_of(Tok(i).tag), Null)), next(next(i)))
    ELSE Then(NotNull(binary_add(next(i)), 109),
              LAMBDA return_exp :
                  IF ~match_token(return_exp.pos, "SEMICON")
                  THEN Exit(110, return_exp.pos)
                  ELSE Ok(StmtAST(ControlAST("return_c", return_exp.ast)),
                          next(return_exp.pos)))

\* the `LVal = exp;` branch; exp is the LVal, the lookahead i is the `=`
statement_assign(exp, i) ==
    Then(NotNull(binary_add(next(i)), 112),
         LAMBDA rhs :
             IF ~match_token(rhs.pos, "SEMICON") THEN Exit(113, rhs.pos)
             ELSE Ok(StmtAST(AssignAST(exp, rhs.ast)), next(rhs.pos)))

\* statement_default without the dynamic_cast: whatever precedes `=` is
\* taken as the target of an assignment
statement_default_any_target(i) ==
    Then(NotNull(binary_add(i), 111),
         LAMBDA exp :
             IF match_token(exp.pos, "ASSIGN")
             THEN statement_assign(exp.ast, exp.pos)
             ELSE IF match_token(exp.pos, "SEMICON")
                  THEN Ok(StmtAST(exp.ast), next(exp.pos))
                  ELSE Exit(114, exp.pos))

\* Parser::statement, the default branch: expression or assignment
statement_default(i) ==
    Then(NotNull(binary_add(i), 111),
         LAMBDA exp :
             IF exp.ast.kind = "LVal"
             THEN IF match_token(exp.pos, "ASSIGN")
                  THEN statement_assign(exp.ast, exp.pos)
                  ELSE IF match_token(exp.pos, "SEMICON")
                       THEN Ok(StmtAST(exp.ast), next(exp.pos))
                       ELSE Exit(114, exp.pos)
             ELSE IF ~match_token(exp.pos, "SEMICON")
                  THEN Exit(115, exp.pos)
                  ELSE Ok(StmtAST(exp.ast), next(exp.pos)))

\* return make_unique<StmtAST>(move(p)) for the callee's result r
WrapStmt(r) == Then(r, LAMBDA x : Ok(StmtAST(x.ast), x.pos))

\* Parser::statement
statement(i) ==
    IF match_token(i, "SEMICON") THEN Ok(StmtAST(EmptyAST), next(i))
    ELSE IF match_token(i, "LBRACE") THEN WrapStmt(NotNull(block(i), 106))
    ELSE IF match_token(i, "KW_WHILE")
    THEN WrapStmt(NotNull(while_loop(i), 107))
    ELSE IF match_token(i, "KW_IF") THEN WrapStmt(NotNull(if_else(i), 108))
    ELSE IF \/ match_token(i, "KW_BREAK")
            \/ match_token(i, "KW_CONTINUE")
            \/ match_token(i, "KW_RETURN")
    THEN statement_control(i)
    ELSE statement_default(i)

\* if_else and while_loop up to the `)`: next(); `(`; condition; `)`; next()
condition_head(i) ==
    IF ~match_token(next(i), "LPAREN") THEN Exit(116, next(i))
    ELSE Then(NotNull(binary_or(next(next(i))), 117),
              LAMBDA condition :
                  IF ~match_token(condition.pos, "RPAREN")
                  THEN Exit(118, condition.pos)
                  ELSE Ok(condition.ast, next(condition.pos)))

\* if_else that leaves an `else` in the lookahead alone
if_else_without_else(i) ==
    Then(condition_head(i),
         LAMBDA condition :
             Then(NotNull(statement(condition.pos), 118),
                  LAMBDA thenStatement :
                      Ok(IfAST(condition.ast, thenStatement.ast, Null),
                         thenStatement.pos)))

\* Parser::if_else
if_else(i) ==
    Then(condition_head(i),
         LAMBDA condition :
             Then(NotNull(statement(condition.pos), 118),
                  LAMBDA thenStatement :
                      IF match_token(thenStatement.pos, "KW_ELSE")
                      THEN Then(NotNull(statement(next(thenStatement.pos)),
                                        119),
                                LAMBDA elseStatement :
                                    Ok(IfAST(condition.ast, thenStatement.ast,
                                             elseStatement.ast),
                                       elseStatement.pos))
                      ELSE Ok(IfAST(condition.ast, thenStatement.ast, Null),
                              thenStatement.pos)))

\* Parser::while_loop
while_loop(i) ==
    Then(condition_head(i),
         LAMBDA condition :
             Then(NotNull(statement(condition.pos), 119),
                  LAMBDA stmt :
                      Ok(WhileAST(condition.ast, stmt.ast), stmt.pos)))

\* init_val_list putting each element in front of the earlier ones
init_val_list_reversed(inits, i) ==
    Then(NotNull(init_val(i), 999),
         LAMBDA init :
             IF ~match_token(init.pos, "COMMA")
             THEN Ok(<<init.ast>> \o inits, init.pos)
             ELSE init_val_list(<<init.ast>> \o inits, next(init.pos)))

\* the `while (true)` element loop of a braced initializer
init_val_list(inits, i) ==
    Then(NotNull(init_val(i), 999),
         LAMBDA init :
             IF ~match_token(init.pos, "COMMA")
             THEN Ok(Append(inits, init.ast), init.pos)
             ELSE init_val_list(Append(inits, init.ast), next(init.pos)))

\* Parser::init_val
init_val(i) ==
    IF match_token(i, "LBRACE")
    THEN IF match_token(next(i), "RBRACE")
         THEN Ok(InitValAST("array_t", <<>>), next(next(i)))
         ELSE Then(init_val_list(<<>>, next(i)),
                   LAMBDA inits :
                       IF ~match_token(inits.pos, "RBRACE")
                       THEN Exit(998, inits.pos)
                       ELSE Ok(InitValAST("array_t", inits.ast),
                               next(inits.pos)))
    ELSE Then(NotNull(binary_add(i), 1000),
              LAMBDA exp : Ok(InitValAST("var_t", <<exp.ast>>), exp.pos))

\* var_def_dims putting each dimension in front of the earlier ones
var_def_dims_reversed(dims, i) ==
    IF match_token(i, "LBRACKET")
    THEN Then(NotNull(binary_add(next(i)), 453),
              LAMBDA exp :
                  IF ~match_token(exp.pos, "RBRACKET") THEN Exit(454, exp.pos)
                  ELSE var_def_dims(<<exp.ast>> \o dims, next(exp.pos)))
    ELSE Ok(dims, i)

\* var_def_dims that takes an empty bracket pair as the dimension Num(0)
var_def_dims_empty_allowed(dims, i) ==
    IF match_token(i, "LBRACKET")
    THEN IF match_token(next(i), "RBRACKET")
         THEN var_def_dims(Append(dims, NumAST(0)), next(next(i)))
         ELSE Then(NotNull(binary_add(next(i)), 453),
                   LAMBDA exp :
                       IF ~match_token(exp.pos, "RBRACKET")
                       THEN Exit(454, exp.pos)
                       ELSE var_def_dims(Append(dims, exp.ast), next(exp.pos)))
    ELSE Ok(dims, i)

\* the `while (match_token(LBRACKET))` dimension loop of Parser::var_def
var_def_dims(dims, i) ==
    IF match_token(i, "LBRACKET")
    THEN Then(NotNull(binary_add(next(i)), 453),
              LAMBDA exp :
                  IF ~match_token(exp.pos, "RBRACKET") THEN Exit(454, exp.pos)
                  ELSE var_def_dims(Append(dims, exp.ast), next(exp.pos)))
    ELSE Ok(dims, i)

\* the Id of a definition: scalar without dimensions, array with
\* (written once in Parser::var_def and once in Parser::program)
id_of(name, isConst, dims) ==
    IF dims = <<>> THEN IdAST(name, "var_t", isConst, <<>>)
    ELSE IdAST(name, "array_t", isConst, dims)

\* var_def_init without the test of isConst
var_def_init_unchecked(isConst, var, i) ==
    IF match_token(i, "ASSIGN")
    THEN Then(NotNull(init_val(next(i)), 456),
              LAMBDA init : Ok(VarDefAST(isConst, var, init.ast), init.pos))
    ELSE Ok(VarDefAST(isConst, var, Null), i)

\* Parser::var_def from the token after the dimensions on: the optional
\* initializer, which a const definition must have
var_def_init(isConst, var, i) ==
    IF match_token(i, "ASSIGN")
    THEN Then(NotNull(init_val(next(i)), 456),
              LAMBDA init : Ok(VarDefAST(isConst, var, init.ast), init.pos))
    ELSE IF isConst THEN Exit(457, i)
         ELSE Ok(VarDefAST(isConst, var, Null), i)

\* Parser::var_def
var_def(isConst, i) ==
    IF ~match_token(i, "ID") THEN Exit(452, i)
    ELSE Then(var_def_dims(<<>>, next(i)),
              LAMBDA dims :
                  var_def_init(isConst, id_of(Tok(i).val, isConst, dims.ast),
                               dims.pos))

\* the `while (match_token(COMMA))` loop of Parser::var_decl and the
\* terminator after it
var_decl_rest(isConst, vars, i) ==
    IF match_token(i, "COMMA")
    THEN Then(NotNull(var_def(isConst, next(i)), 451),
              LAMBDA varDef :
                  var_decl_rest(isConst, Append(vars, varDef.ast), varDef.pos))
    ELSE IF ~match_token(i, "SEMICON") THEN Exit(452, i)
         ELSE Ok(VarDeclAST(isConst, vars), next(i))

\* Parser::var_decl from the type on; the lookahead i follows the optional
\* `const`
var_decl_typed(isConst, i) ==
    IF ~match_token(i, "KW_INT") THEN Exit(450, i)
    ELSE Then(NotNull(var_def(isConst, next(i)), 451),
              LAMBDA varDef :
                  var_decl_rest(isConst, <<varDef.ast>>, varDef.pos))

\* Parser::var_decl
var_decl(i) ==
    IF match_token(i, "KW_CONST") THEN var_decl_typed(TRUE, next(i))
    ELSE var_decl_typed(FALSE, i)

\* the `while (!match_token(RBRACE))` loop of Parser::block and the next()
\* after it
block_loop(stmts, i) ==
    IF ~match_token(i, "RBRACE")
    THEN IF match_token(i, "KW_CONST") \/ match_token(i, "KW_INT")
         THEN Then(NotNull(var_decl(i), 460),
                   LAMBDA var : block_loop(Append(stmts, var.ast), var.pos))
         ELSE Then(NotNull(statement(i), 461),
                   LAMBDA stmt : block_loop(Append(stmts, stmt.ast), stmt.pos))
    ELSE Ok(BlockAST(stmts), next(i))

\* Parser::block: the first next() consumes the lookahead unexamined
block(i) ==
    IF match_token(next(i), "RBRACE") THEN Ok(BlockAST(<<>>), next(next(i)))
    ELSE block_loop(<<>>, next(i))

\* the `while (match_token(LBRACKET))` loop of an array parameter
param_dims(diag, dim, i) ==
    IF match_token(i, "LBRACKET")
    THEN Then(binary_add(next(i)),
              LAMBDA d :
                  IF d.ast = Null THEN Fail(diag, 995, d.pos)
                  ELSE IF ~match_token(d.pos, "RBRACKET")
                       THEN Fail(diag, 994, d.pos)
                       ELSE param_dims(diag, Append(dim, d.ast), next(d.pos)))
    ELSE Ok(dim, i)

\* one parameter after its type: the name at i, then an optional `[]` with
\* further dimensions; the empty pair is recorded as Num(0)
param(diag, i) ==
    IF match_token(next(i), "LBRACKET")
    THEN IF ~match_token(next(next(i)), "RBRACKET")
         THEN Exit(997, next(next(i)))
         ELSE Then(param_dims(diag, <<NumAST(0)>>, next(next(next(i)))),
                   LAMBDA dim :
                       Ok(IdAST(Tok(i).val, "array_t", FALSE, dim.ast),
                          dim.pos))
    ELSE Ok(IdAST(Tok(i).val, "var_t", FALSE, <<>>), next(i))

\* the `while (true)` parameter loop of a function header, written once in
\* Parser::function_def (diag = FALSE) and once in Parser::program, where
\* every exit but exit(997) is preceded by display_err (diag = TRUE)
params_loop(diag, args, i) ==
    IF ~match_token(i, "KW_INT") THEN Fail(diag, 996, i)
    ELSE IF ~match_token(next(i), "ID") THEN Fail(diag, 998, next(i))
    ELSE Then(param(diag, next(i)),
              LAMBDA arg :
                  IF ~match_token(arg.pos, "COMMA")
                  THEN Ok(Append(args, arg.ast), arg.pos)
                  ELSE params_loop(diag, Append(args, arg.ast), next(arg.pos)))

\* a function header from the token after `(` up to its `)`, which is left
\* in the lookahead
param_list(diag, i) ==
    IF match_token(i, "RPAREN") THEN Ok(<<>>, i)
    ELSE Then(params_loop(diag, <<>>, i),
              LAMBDA args :
                  IF ~match_token(args.pos, "RPAREN")
                  THEN Fail(diag, 993, args.pos)
                  ELSE args)

\* the parameter list as Parser::function_def parses it
function_def_params(i) == param_list(FALSE, i)

\* the parameter list as the `int` branch of Parser::program parses it
program_params(i) == param_list(TRUE, i)

\* the return type Parser::function_def reads off the lookahead
function_type(i) ==
    CASE match_token(i, "KW_VOID") -> "void_t"
      [] match_token(i, "KW_CHAR") -> "char_t"
      [] match_token(i, "KW_INT")  -> "int_t"

\* Parser::function_def
function_def(i) ==
    IF ~match_token(next(i), "ID") THEN Exit(999, next(i))
    ELSE IF ~match_token(next(next(i)), "LPAREN")
    THEN Exit(998, next(next(i)))
    ELSE Then(function_def_params(next(next(next(i)))),
              LAMBDA args :
                  Then(block(next(args.pos)),
                       LAMBDA body :
                           Ok(FuncDefAST(function_type(i), Tok(next(i)).val,
                                         args.ast, body.ast),
                              body.pos)))

----------------------------------------------------------------------------
(* Parser::program, the `int` branch: a function or a variable declaration. *)

RECURSIVE program_dims(_, _)
RECURSIVE program_var_rest(_, _)

\* the `while (match_token(LBRACKET))` dimension loop of the first definition
program_dims(dims, i) ==
    IF match_token(i, "LBRACKET")
    THEN Then(NotNull(binary_add(next(i)), 453),
              LAMBDA exp :
                  IF ~match_token(exp.pos, "RBRACKET") THEN Exit(454, exp.pos)
                  ELSE program_dims(Append(dims, exp.ast), next(exp.pos)))
    ELSE Ok(dims, i)

\* the first definition of the declaration: its Id is built, its optional
\* initializer follows
program_first_def(var, i) ==
    IF match_token(i, "ASSIGN")
    THEN Then(NotNull(init_val(next(i)), 456),
              LAMBDA init : Ok(VarDefAST(FALSE, var, init.ast), init.pos))
    ELSE Ok(VarDefAST(FALSE, var, Null), i)

\* the `while (match_token(COMMA))` loop, the terminator, the VarDecl and
\* the next() after it
program_var_rest(varDefs, i) ==
    IF match_token(i, "COMMA")
    THEN Then(NotNull(var_def(FALSE, next(i)), 133),
              LAMBDA varDef :
                  program_var_rest(Append(varDefs, varDef.ast), varDef.pos))
    ELSE IF ~match_token(i, "SEMICON") THEN Exit(134, i)
         ELSE Ok(VarDeclAST(FALSE, varDefs), next(i))

\* program_var with the first definition left out of the declaration
program_var_lost_first(name, i) ==
    Then(program_dims(<<>>, i),
         LAMBDA dims :
             Then(program_first_def(id_of(name, FALSE, dims.ast), dims.pos),
                  LAMBDA varDef : program_var_rest(<<>>, varDef.pos)))

\* the `else { // var def` branch; the lookahead i follows the identifier
program_var(name, i) ==
    Then(program_dims(<<>>, i),
         LAMBDA dims :
             Then(program_first_def(id_of(name, FALSE, dims.ast), dims.pos),
                  LAMBDA varDef :
                      program_var_rest(<<varDef.ast>>, varDef.pos)))

\* the `if (match_token(LPAREN))` branch; the lookahead i is the `(`
program_func(name, i) ==
    Then(program_params(next(i)),
         LAMBDA args :
             Then(block(next(args.pos)),
                  LAMBDA body :
                      Ok(FuncDefAST("int_t", name, args.ast, body.ast),
                         body.pos)))

\* the `else if (match_token(KW_INT))` branch of the driver loop
program_int(i) ==
    IF ~match_token(next(i), "ID") THEN ErrExit(3, next(i))
    ELSE IF match_token(next(next(i)), "LPAREN")
         THEN program_func(Tok(next(i)).val, next(next(i)))
         ELSE program_var(Tok(next(i)).val, next(next(i)))

----------------------------------------------------------------------------
(* Inputs.  An input is a sequence of tags; the name of an ID and the value *)
(* of a NUM is the index of the token in the input, so that every node of   *)
(* a tree can be traced to the token it was built from.                     *)

MkToks(tags) ==
    [i \in 1..Len(tags) |->
        [tag |-> tags[i],
         val |-> IF tags[i] \in {"ID", "NUM"} THEN i ELSE 0]]

RECURSIVE Flatten(_)
\* the concatenation of a sequence of sequences
Flatten(ss) ==
    IF ss = <<>> THEN <<>> ELSE Head(ss) \o Flatten(Tail(ss))

TagsOf(ts) == [i \in 1..Len(ts) |-> ts[i].tag]

\* the input is the concatenation of at most n pieces of the set C
InputOf(C, n) ==
    \E k \in 0..n : \E cs \in [1..k -> C] : toks = MkToks(Flatten(cs))

\* the entry point has not been called yet
InitCursor ==
    /\ pos = 0
    /\ nodes = <<>>
    /\ ret = Null
    /\ status = "init"
    /\ exitCode = 0
    /\ errs = 0

\* Parser::parsing, first statement: this->next() reads the first token
LoadFirst ==
    /\ status = "init"
    /\ pos' = next(pos)
    /\ status' = "running"
    /\ UNCHANGED <<toks, eofWithLast, nodes, ret, exitCode, errs>>

\* the entry point returned r (or called exit below)
Finish(r) ==
    /\ pos' = r.pos
    /\ ret' = r.ast
    /\ status' = IF r.ok THEN "done" ELSE "failed"
    /\ exitCode' = r.code
    /\ errs' = errs + r.errs
    /\ UNCHANGED <<toks, eofWithLast, nodes>>

----------------------------------------------------------------------------
(* SpecExpr: Parser::binary_or applied to every operator/operand sequence.  *)

ExprOpTags == {"OR", "AND", "EQU", "GT", "ADD", "SUB", "MUL"}
ExprTags == {"NUM"} \cup ExprOpTags

\* NUM op1 NUM op2 ... opn NUM
Alternating(ops) ==
    [i \in 1..(2 * Len(ops) + 1) |->
        IF i % 2 = 1 THEN "NUM" ELSE ops[i \div 2]]

\* every sequence of up to MaxExprLen tags, and every well-formed chain of
\* up to MaxChainOps operators
InitExpr ==
    /\ \/ InputOf({<<t>> : t \in ExprTags}, MaxExprLen)
       \/ \E k \in 0..MaxChainOps : \E ops \in [1..k -> ExprOpTags] :
             toks = MkToks(Alternating(ops))
    /\ eofWithLast = FALSE
    /\ InitCursor

CallBinaryOr ==
    /\ status = "running"
    /\ \E r \in {binary_or(pos)} : Finish(r)

NextExpr == LoadFirst \/ CallBinaryOr

SpecExpr == InitExpr /\ [][NextExpr]_pvars

----------------------------------------------------------------------------
(* The driver: Parser::parsing and the loop of Parser::program.             *)

\* one iteration of the driver loop whose branch ended with the result r:
\* nodes.push_back, or the exit below the branch
Iteration(r) ==
    /\ pos' = r.pos
    /\ nodes' = IF r.ok THEN Append(nodes, r.ast) ELSE nodes
    /\ status' = IF r.ok THEN "running" ELSE "failed"
    /\ exitCode' = r.code
    /\ errs' = errs + r.errs
    /\ UNCHANGED <<toks, eofWithLast, ret>>

\* Parser::parsing up to the call of program(): this->next()
parsing ==
    /\ status = "init"
    /\ pos' = next(pos)
    /\ status' = "running"
    /\ UNCHANGED <<toks, eofWithLast, nodes, ret, exitCode, errs>>

\* the loop is entered: while (is_done() == false)
InLoop == status = "running" /\ ~is_done(pos)

program_const_branch ==
    /\ InLoop
    /\ match_token(pos, "KW_CONST")
    /\ \E r \in {NotNullErr(var_decl(pos), 1)} : Iteration(r)

program_void_branch ==
    /\ InLoop
    /\ ~match_token(pos, "KW_CONST")
    /\ match_token(pos, "KW_VOID")
    /\ \E r \in {NotNullErr(function_def(pos), 2)} : Iteration(r)

program_int_branch ==
    /\ InLoop
    /\ ~match_token(pos, "KW_CONST")
    /\ ~match_token(pos, "KW_VOID")
    /\ match_token(pos, "KW_INT")
    /\ \E r \in {program_int(pos)} : Iteration(r)

\* the else branch of the driver loop without display_err and exit: the
\* unknown token is left in the lookahead and the loop goes on
program_else_branch_ignored ==
    /\ InLoop
    /\ ~match_token(pos, "KW_CONST")
    /\ ~match_token(pos, "KW_VOID")
    /\ ~match_token(pos, "KW_INT")
    /\ UNCHANGED pvars

program_else_branch ==
    /\ InLoop
    /\ ~match_token(pos, "KW_CONST")
    /\ ~match_token(pos, "KW_VOID")
    /\ ~match_token(pos, "KW_INT")
    /\ Iteration(ErrExit(233, pos))

\* the loop is left: return make_unique<CompUnitAST>(move(nodes))
program_return ==
    /\ status = "running"
    /\ is_done(pos)
    /\ ret' = CompUnitAST(nodes)
    /\ status' = "done"
    /\ UNCHANGED <<toks, eofWithLast, pos, nodes, exitCode, errs>>

IntId == <<"KW_INT", "ID">>
ConstIntId == <<"KW_CONST", "KW_INT", "ID">>
VoidOpen == <<"KW_VOID", "ID", "LPAREN", "RPAREN", "LBRACE">>
Dim == <<"LBRACKET", "NUM", "RBRACKET">>
AssignNum == <<"ASSIGN", "NUM">>
CommaId == <<"COMMA", "ID">>

\* programs: declarations, function headers, braces, and anything they
\* make when put in the wrong order
ProgChunks ==
    {IntId, <<"KW_INT">>, ConstIntId, VoidOpen, <<"LPAREN", "RPAREN">>,
     <<"LBRACE">>, <<"RBRACE">>, <<"SEMICON">>, AssignNum}

\* declarations: several definitions, several dimensions, initializers
DeclChunks == {IntId, ConstIntId, CommaId, Dim, AssignNum, <<"SEMICON">>}

\* every program of up to MaxProgChunks pieces of ProgChunks, and every
\* sequence of up to MaxDeclChunks pieces of declarations, at top level and
\* as the body of a function
Init ==
    /\ \/ InputOf(ProgChunks, MaxProgChunks)
       \/ InputOf(DeclChunks, MaxDeclChunks)
       \/ \E k \in 0..MaxDeclChunks : \E cs \in [1..k -> DeclChunks] :
             toks = MkToks(VoidOpen \o Flatten(cs) \o <<"RBRACE">>)
    /\ eofWithLast \in BOOLEAN
    /\ InitCursor

Next ==
    \/ parsing
    \/ program_const_branch
    \/ program_void_branch
    \/ program_int_branch
    \/ program_else_branch
    \/ program_return

Spec == Init /\ [][Next]_pvars

----------------------------------------------------------------------------
(* SpecIf: Parser::statement applied to nestings of if, while, else and     *)
(* blocks.                                                                  *)

IfHead == <<"KW_IF", "LPAREN", "ID", "RPAREN">>
WhileHead == <<"KW_WHILE", "LPAREN", "ID", "RPAREN">>
Simple == <<"ID", "SEMICON">>

IfChunks ==
    {IfHead, WhileHead, Simple, <<"KW_ELSE">>, <<"LBRACE">>, <<"RBRACE">>}

InitIf ==
    /\ InputOf(IfChunks, MaxIfChunks)
    /\ eofWithLast = FALSE
    /\ InitCursor

CallStatement ==
    /\ status = "running"
    /\ \E r \in {statement(pos)} : Finish(r)

NextIf == LoadFirst \/ CallStatement

SpecIf == InitIf /\ [][NextIf]_pvars

----------------------------------------------------------------------------
(* SpecStmt: Parser::statement applied to expression and assignment         *)
(* statements.                                                              *)

StmtChunks ==
    {<<"ID">>, <<"NUM">>, <<"ASSIGN">>, <<"SEMICON">>, Dim, <<"SUB">>,
     <<"LPAREN", "ID", "RPAREN">>, <<"ID", "LPAREN", "RPAREN">>}

InitStmt ==
    /\ InputOf(StmtChunks, MaxStmtChunks)
    /\ eofWithLast = FALSE
    /\ InitCursor

NextStmt == LoadFirst \/ CallStatement

SpecStmt == InitStmt /\ [][NextStmt]_pvars

----------------------------------------------------------------------------
(* SpecInit: Parser::init_val applied to every sequence of braces, commas   *)
(* and numbers.                                                             *)

InitTags == {"LBRACE", "RBRACE", "COMMA", "NUM"}

InitInit ==
    /\ InputOf({<<t>> : t \in InitTags}, MaxInitLen)
    /\ eofWithLast = FALSE
    /\ InitCursor

CallInitVal ==
    /\ status = "running"
    /\ \E r \in {init_val(pos)} : Finish(r)

NextInit == LoadFirst \/ CallInitVal

SpecInit == InitInit /\ [][NextInit]_pvars

----------------------------------------------------------------------------
(* Walking a tree.                                                          *)

SeqRange(q) == {q[k] : k \in 1..Len(q)}

\* the direct subtrees of node n
Children(n) ==
    CASE n.kind = "CompUnit" -> SeqRange(n.units)
      [] n.kind = "Stmt"     -> {n.stmt}
      [] n.kind = "FuncDef"  -> SeqRange(n.params) \cup {n.body}
      [] n.kind = "FuncCall" -> SeqRange(n.args)
      [] n.kind = "VarDecl"  -> SeqRange(n.vars)
      [] n.kind = "VarDef"   -> {n.var, n.initVal}
      [] n.kind = "Id"       -> SeqRange(n.dim)
      [] n.kind = "InitVal"  -> SeqRange(n.values)
      [] n.kind = "Block"    -> SeqRange(n.stmts)
      [] n.kind = "Binary"   -> {n.left, n.right}
      [] n.kind = "Unary"    -> {n.exp}
      [] n.kind = "If"       -> {n.conditionExp, n.thenAST, n.elseAST}
      [] n.kind = "While"    -> {n.conditionExp, n.body}
      [] n.kind = "Control"  -> {n.returnStmt}
      [] n.kind = "Assign"   -> {n.left, n.right}
      [] n.kind = "LVal"     -> SeqRange(n.position)
      [] OTHER               -> {}

RECURSIVE NodesOf(_)
\* every node of the tree rooted at n
NodesOf(n) == {n} \cup UNION {NodesOf(c) : c \in Children(n)}

\* the nodes of kind k in the tree rooted at n
NodesOfKind(n, k) == {m \in NodesOf(n) : m.kind = k}

----------------------------------------------------------------------------
(* The precedence ladder as the specification states it, lowest first.      *)

Rank(op) ==
    CASE op = "or_op" -> 1
      [] op = "and_op" -> 2
      [] op \in {"equ_op", "nequ_op"} -> 3
      [] op \in {"gt_op", "ge_op", "le_op"} -> 4
      [] op \in {"add_op", "sub_op"} -> 5
      [] op \in {"mul_op", "div_op", "mod_op"} -> 6
      [] OTHER -> 0

TagRank(tag) == Rank(tag_to_op(tag))

\* the input is NUM op NUM op NUM
TwoOperators ==
    /\ Len(toks) = 5
    /\ \A i \in {1, 3, 5} : toks[i].tag = "NUM"
    /\ \A i \in {2, 4} : TagRank(toks[i].tag) > 0

\* C1: an expression that mixes operators of two tiers, parsed from the
\* logical-or level, nests the operator of the higher tier beneath the
\* operator of the lower tier whatever their textual order: no Binary node
\* has a left child of a lower tier or a right child of the same or a lower
\* tier, and NUM op1 NUM op2 NUM of two different tiers is rooted at the
\* lower-tier operator (1+2*3 is add(1, mul(2, 3)), 1*2+3 is add(mul(1, 2), 3)).
C1_PrecedenceNesting ==
    status = "done" =>
        /\ \A n \in NodesOfKind(ret, "Binary") :
              /\ n.left.kind = "Binary" => Rank(n.left.op) >= Rank(n.op)
              /\ n.right.kind = "Binary" => Rank(n.right.op) > Rank(n.op)
        /\ (TwoOperators /\ TagRank(toks[2].tag) # TagRank(toks[4].tag)) =>
              LET op1 == tag_to_op(toks[2].tag)
                  op2 == tag_to_op(toks[4].tag)
              IN  /\ pos = 6
                  /\ ret = IF Rank(op1) < Rank(op2)
                           THEN BinaryAST(op1, NumAST(1),
                                          BinaryAST(op2, NumAST(3), NumAST(5)))
                           ELSE BinaryAST(op2,
                                          BinaryAST(op1, NumAST(1), NumAST(3)),
                                          NumAST(5))

\* 1+2*3 has been parsed: the multiplication is the right operand of the addition
C1_Witness ==
    /\ status = "done"
    /\ TagsOf(toks) = <<"NUM", "ADD", "NUM", "MUL", "NUM">>
    /\ ret = BinaryAST("add_op", NumAST(1),
                       BinaryAST("mul_op", NumAST(3), NumAST(5)))

\* the input is a chain x1 op1 x2 ... opn x(n+1) of one tier
IsChain ==
    /\ Len(toks) % 2 = 1
    /\ \A i \in 1..Len(toks) :
          IF i % 2 = 1 THEN toks[i].tag = "NUM"
          ELSE /\ TagRank(toks[i].tag) > 0
               /\ TagRank(toks[i].tag) = TagRank(toks[2].tag)

RECURSIVE LeftNested(_)
\* the left-nested tree of the first 2n+1 tokens of a chain
LeftNested(n) ==
    IF n = 0 THEN NumAST(toks[1].val)
    ELSE BinaryAST(tag_to_op(toks[2 * n].tag), LeftNested(n - 1),
                   NumAST(toks[2 * n + 1].val))

\* C2: a chain of operators of one tier folds to the left: the tree of
\* x1 op1 x2 ... opn x(n+1) is Binary(opn, Binary(..., Binary(op1, x1, x2)), x(n+1)),
\* and no Binary node has a right child that is a Binary of its own tier
\* (the inputs hold no parentheses).
C2_LeftAssociative ==
    status = "done" =>
        /\ \A n \in NodesOfKind(ret, "Binary") :
              n.right.kind = "Binary" => Rank(n.right.op) # Rank(n.op)
        /\ IsChain =>
              /\ ret = LeftNested((Len(toks) - 1) \div 2)
              /\ pos = Len(toks) + 1

\* 1-2-3 has been parsed as (1-2)-3
C2_Witness ==
    /\ status = "done"
    /\ TagsOf(toks) = <<"NUM", "SUB", "NUM", "SUB", "NUM">>
    /\ ret = BinaryAST("sub_op",
                       BinaryAST("sub_op", NumAST(1), NumAST(3)), NumAST(5))

----------------------------------------------------------------------------
(* Dangling else (SpecIf).                                                  *)

RECURSIVE EndsWithOpenIf(_)
\* the statement s ends with an if that has no else-branch and is not
\* closed off by a block: a following `else` could still belong to it
EndsWithOpenIf(s) ==
    /\ s.kind = "Stmt"
    /\ CASE s.stmt.kind = "If" ->
              IF s.stmt.elseAST = Null THEN TRUE
              ELSE EndsWithOpenIf(s.stmt.elseAST)
         [] s.stmt.kind = "While" -> EndsWithOpenIf(s.stmt.body)
         [] OTHER -> FALSE

\* k times `if ( id )`, then `id ; else id ;`
IfChainTags(k) ==
    Flatten([j \in 1..k |-> IfHead]) \o Simple \o <<"KW_ELSE">> \o Simple

RECURSIVE IfChainTree(_, _)
\* the tree of the j-th if of such a chain of k: the else belongs to the last
IfChainTree(j, k) ==
    LET cond == LValAST(4 * j - 1, "var_t", <<>>)
        s1   == StmtAST(LValAST(4 * k + 1, "var_t", <<>>))
        s2   == StmtAST(LValAST(4 * k + 4, "var_t", <<>>))
    IN  IF j = k THEN StmtAST(IfAST(cond, s1, s2))
        ELSE StmtAST(IfAST(cond, IfChainTree(j + 1, k), Null))

\* C3: an else is attached to the innermost if whose then-statement has just
\* been completed and that has no else yet: no If with an else-branch has a
\* then-statement ending in an if that could have taken the else, and in
\* `if(a) if(b) ... s1; else s2;` only the innermost If has an else-branch, s2.
C3_ElseBindsInnermost ==
    status = "done" =>
        /\ \A n \in NodesOfKind(ret, "If") :
              n.elseAST # Null => ~EndsWithOpenIf(n.thenAST)
        /\ LET k == (Len(toks) - 5) \div 4
           IN  (k >= 1 /\ TagsOf(toks) = IfChainTags(k)) =>
                   /\ ret = IfChainTree(1, k)
                   /\ pos = Len(toks) + 1

\* if(a) if(b) s1; else s2; has been parsed: the outer If has no else-branch,
\* the inner If has s2
C3_Witness ==
    /\ status = "done"
    /\ TagsOf(toks) = IfChainTags(2)
    /\ ret.stmt.kind = "If"
    /\ ret.stmt.elseAST = Null
    /\ ret.stmt.thenAST.stmt.kind = "If"
    /\ ret.stmt.thenAST.stmt.elseAST = StmtAST(LValAST(12, "var_t", <<>>))

----------------------------------------------------------------------------
(* Expression statements and assignments (SpecStmt).                        *)

\* the tags of the first n tokens of the input are ts
StartsWith(ts) ==
    /\ Len(toks) >= Len(ts)
    /\ \A i \in 1..Len(ts) : toks[i].tag = ts[i]

\* C5: in the default branch of Parser::statement an Assign is produced if
\* and only if an `=` was consumed, its left child is then the LVal parsed
\* first (bare, indexed or in parentheses) and the `=` is the token next to
\* it; every statement ends with the terminator; without `=` the statement
\* wraps the expression itself (`a;` wraps LVal a, `a=1;` is Assign(LVal a,
\* Num 1)); an expression that is no LVal followed by `=` is fatal.
C5_AssignOnlyForLVal ==
    /\ status = "done" =>
          /\ ret.kind = "Stmt"
          /\ toks[pos - 1].tag = "SEMICON"
          /\ (ret.stmt.kind = "Assign") <=>
                (\E i \in 1..(pos - 1) : toks[i].tag = "ASSIGN")
          /\ ret.stmt.kind = "Assign" =>
                LET l == ret.stmt.left
                    paren == IF toks[1].tag = "LPAREN" THEN 1 ELSE 0
                IN  /\ l.kind = "LVal"
                    /\ l.name = 1 + paren
                    /\ toks[l.name].tag = "ID"
                    /\ l.type = IF l.position = <<>> THEN "var_t" ELSE "array_t"
                    /\ \A k \in 1..Len(l.position) :
                          l.position[k] = NumAST(l.name + 3 * k - 1)
                    /\ toks[l.name + 3 * Len(l.position) + paren + 1].tag
                          = "ASSIGN"
          /\ StartsWith(<<"ID", "SEMICON">>) =>
                ret = StmtAST(LValAST(1, "var_t", <<>>))
          /\ StartsWith(<<"ID", "ASSIGN", "NUM", "SEMICON">>) =>
                ret = StmtAST(AssignAST(LValAST(1, "var_t", <<>>), NumAST(3)))
    /\ (status \in {"done", "failed"} /\ StartsWith(<<"NUM", "ASSIGN">>)) =>
          /\ status = "failed"
          /\ exitCode = 115

\* a[0]=1; has been parsed into an Assign whose target is the indexed LVal
C5_Witness ==
    /\ status = "done"
    /\ TagsOf(toks) = <<"ID">> \o Dim \o <<"ASSIGN", "NUM", "SEMICON">>
    /\ ret = StmtAST(AssignAST(LValAST(1, "array_t", <<NumAST(3)>>),
                               NumAST(6)))

----------------------------------------------------------------------------
(* Initializers (SpecInit).                                                 *)

RECURSIVE RenderInit(_)
RECURSIVE RenderInitList(_)

\* the source text of the initializer tree n: a scalar is its number, an
\* aggregate its elements between braces, separated by commas
RenderInit(n) ==
    IF n.type = "var_t"
    THEN <<[tag |-> "NUM", val |-> n.values[1].val]>>
    ELSE <<[tag |-> "LBRACE", val |-> 0]>> \o RenderInitList(n.values)
            \o <<[tag |-> "RBRACE", val |-> 0]>>

RenderInitList(vs) ==
    IF vs = <<>> THEN <<>>
    ELSE IF Len(vs) = 1 THEN RenderInit(vs[1])
    ELSE RenderInit(Head(vs)) \o <<[tag |-> "COMMA", val |-> 0]>>
            \o RenderInitList(Tail(vs))

\* C8: the tree init_val returns mirrors the braces of the source: every
\* scalar InitVal holds exactly one expression, every aggregate holds
\* InitVal nodes only, and writing the tree back (a brace pair per aggregate,
\* its children in order, separated by commas) gives exactly the tokens that
\* were consumed; {1,2} is InitVal(aggregate, [scalar 1, scalar 2]) and {} an
\* aggregate without children.
C8_InitValMirrorsBraces ==
    status = "done" =>
        /\ ret.kind = "InitVal"
        /\ \A n \in NodesOfKind(ret, "InitVal") :
              /\ n.type \in {"var_t", "array_t"}
              /\ n.type = "var_t" =>
                    Len(n.values) = 1 /\ n.values[1].kind = "Num"
              /\ n.type = "array_t" =>
                    \A k \in 1..Len(n.values) : n.values[k].kind = "InitVal"
        /\ RenderInit(ret) = SubSeq(toks, 1, pos - 1)
        /\ StartsWith(<<"LBRACE", "RBRACE">>) =>
              ret = InitValAST("array_t", <<>>)

\* {1,2} has been parsed into an aggregate of two scalars, in order
C8_Witness ==
    /\ status = "done"
    /\ TagsOf(toks) = <<"LBRACE", "NUM", "COMMA", "NUM", "RBRACE">>
    /\ ret = InitValAST("array_t", <<InitValAST("var_t", <<NumAST(2)>>),
                                     InitValAST("var_t", <<NumAST(4)>>)>>)

----------------------------------------------------------------------------
(* Whole programs (Spec).                                                   *)

\* C4: the parser never returns a tree for an input that the grammar does
\* not derive.  In the checked programs a `)` only ever closes the (empty)
\* parameter list of a function header, which the grammar makes the `{` of
\* the body follow.
C4_NoTreeForUnderivableInput ==
    status = "done" =>
        \A i \in 1..Len(toks) :
            toks[i].tag = "RPAREN" =>
                i < Len(toks) /\ toks[i + 1].tag = "LBRACE"

\* the number of commas among the tokens a..b-1
CommasBetween(a, b) ==
    Cardinality({i \in a..(b - 1) : i <= Len(toks) /\ toks[i].tag = "COMMA"})

\* the name that starts the top-level unit u
UnitName(u) == IF u.kind = "FuncDef" THEN u.name ELSE u.vars[1].var.name

\* C6: after `int` and an identifier the driver appends exactly one node for
\* the construct: a FuncDef of return type int named by the identifier when
\* the next token is `(`, otherwise one VarDecl with const=false holding one
\* VarDef per comma-separated definition; the CompUnit returned holds the
\* nodes appended, in source order.
C6_OneUnitPerConstruct ==
    [][/\ (status = "running" /\ status' = "running"
              /\ Tok(pos).tag = "KW_INT") =>
             /\ Len(nodes') = Len(nodes) + 1
             /\ SubSeq(nodes', 1, Len(nodes)) = nodes
             /\ LET u == nodes'[Len(nodes')]
                IN  IF Tok(pos + 2).tag = "LPAREN"
                    THEN /\ u.kind = "FuncDef"
                         /\ u.type = "int_t"
                         /\ u.name = pos + 1
                    ELSE /\ u.kind = "VarDecl"
                         /\ u.isConst = FALSE
                         /\ Len(u.vars) = 1 + CommasBetween(pos, pos')
                         /\ \A k \in 1..Len(u.vars) :
                               /\ u.vars[k].kind = "VarDef"
                               /\ u.vars[k].isConst = FALSE
                               /\ u.vars[k].var.kind = "Id"
                               /\ u.vars[k].var.isConst = FALSE
                         /\ u.vars[1].var.name = pos + 1
       /\ (status = "running" /\ status' = "done") =>
             /\ ret' = CompUnitAST(nodes)
             /\ \A k \in 1..(Len(nodes) - 1) :
                   UnitName(nodes[k]) < UnitName(nodes[k + 1])
             /\ StartsWith(<<"KW_INT", "ID", "SEMICON">>) =>
                   nodes[1] = VarDeclAST(FALSE,
                       <<VarDefAST(FALSE, IdAST(2, "var_t", FALSE, <<>>),
                                   Null)>>)
      ]_pvars

\* int a; int b, c; has been parsed into two VarDecl units, in order, the
\* second with two definitions
C6_Witness ==
    /\ status = "done"
    /\ TagsOf(toks) = IntId \o <<"SEMICON">> \o IntId \o CommaId \o <<"SEMICON">>
    /\ ret = CompUnitAST(
          <<VarDeclAST(FALSE,
               <<VarDefAST(FALSE, IdAST(2, "var_t", FALSE, <<>>), Null)>>),
            VarDeclAST(FALSE,
               <<VarDefAST(FALSE, IdAST(5, "var_t", FALSE, <<>>), Null),
                 VarDefAST(FALSE, IdAST(7, "var_t", FALSE, <<>>), Null)>>)>>)

RECURSIVE DimGroupsAfter(_)
\* the number of `[ NUM ]` groups that follow token i of the input
DimGroupsAfter(i) ==
    IF /\ i + 3 <= Len(toks)
       /\ toks[i + 1].tag = "LBRACKET"
       /\ toks[i + 2].tag = "NUM"
       /\ toks[i + 3].tag = "RBRACKET"
    THEN 1 + DimGroupsAfter(i + 3)
    ELSE 0

\* C7: the Id of every variable definition, whether the driver's `int`
\* branch or var_def parsed it, has one dimension expression per bracket
\* group that follows its name in the source, in source order, and is an
\* array exactly when there is at least one (int a[2][3]; gives Num 2, Num 3).
C7_DimensionsInOrder ==
    status = "done" =>
        /\ \A d \in NodesOfKind(ret, "VarDef") :
              LET id == d.var
                  k  == DimGroupsAfter(id.name)
              IN  /\ id.kind = "Id"
                  /\ toks[id.name].tag = "ID"
                  /\ Len(id.dim) = k
                  /\ \A j \in 1..k : id.dim[j] = NumAST(id.name + 3 * j - 1)
                  /\ id.type = IF k > 0 THEN "array_t" ELSE "var_t"
        /\ TagsOf(toks) = IntId \o Dim \o Dim \o <<"SEMICON">> =>
              ret = CompUnitAST(<<VarDeclAST(FALSE,
                       <<VarDefAST(FALSE,
                            IdAST(2, "array_t", FALSE,
                                  <<NumAST(4), NumAST(7)>>),
                            Null)>>)>>)

\* int a, b[2][3]; has been parsed: a by the driver, without dimensions,
\* b by var_def, with two
C7_Witness ==
    /\ status = "done"
    /\ TagsOf(toks) = IntId \o CommaId \o Dim \o Dim \o <<"SEMICON">>
    /\ ret = CompUnitAST(<<VarDeclAST(FALSE,
          <<VarDefAST(FALSE, IdAST(2, "var_t", FALSE, <<>>), Null),
            VarDefAST(FALSE,
                IdAST(4, "array_t", FALSE, <<NumAST(6), NumAST(9)>>),
                Null)>>)>>)

\* the declaration whose first definition is named by token n starts with
\* `const`, read as such: a token that stands where the `{` of a function
\* body is expected, next to the `)` of the header, is never examined
DeclaredConst(n) ==
    /\ n >= 3
    /\ toks[n - 1].tag = "KW_INT"
    /\ toks[n - 2].tag = "KW_CONST"
    /\ n >= 4 => toks[n - 3].tag # "RPAREN"

\* token n names a definition, the first or one after a comma, of a
\* declaration that starts with `const`
InConstDecl(n) ==
    /\ toks[n].tag = "ID"
    /\ \E m \in 3..n :
          /\ DeclaredConst(m)
          /\ \A j \in m..n : toks[j].tag \notin {"SEMICON", "KW_INT"}
          /\ n = m \/ toks[n - 1].tag = "COMMA"

\* C9: every VarDef with const=true of a returned tree has an initializer;
\* no parse succeeds that has read a definition of a `const` declaration
\* (first or after a comma, at top level or in a block) which no `=`
\* follows, and the first one at top level ends it with exit(457); the const
\* flag of a VarDecl is that of each of its VarDefs and of their Ids, and is
\* true exactly for a declaration that starts with `const`.
C9_ConstHasInitializer ==
    /\ status = "done" =>
          /\ \A d \in NodesOfKind(ret, "VarDef") :
                d.isConst => d.initVal # Null
          /\ \A n \in 1..(pos - 1) :
                (n <= Len(toks) /\ InConstDecl(n)) =>
                    Tok(n + 3 * DimGroupsAfter(n) + 1).tag = "ASSIGN"
          /\ \A v \in NodesOfKind(ret, "VarDecl") :
                /\ \A k \in 1..Len(v.vars) :
                      /\ v.vars[k].isConst = v.isConst
                      /\ v.vars[k].var.isConst = v.isConst
                /\ v.isConst <=> DeclaredConst(v.vars[1].var.name)
    /\ (/\ status \in {"done", "failed"}
        /\ StartsWith(ConstIntId)
        /\ Tok(4 + 3 * DimGroupsAfter(3)).tag # "ASSIGN"
        /\ Tok(4 + 3 * DimGroupsAfter(3)).tag # "LBRACKET") =>
          /\ status = "failed"
          /\ exitCode = 457

\* const int a = 1, b = 2; has been parsed: both definitions are const and
\* initialized
C9_Witness ==
    /\ status = "done"
    /\ TagsOf(toks) = ConstIntId \o AssignNum \o CommaId \o AssignNum
                         \o <<"SEMICON">>
    /\ ret = CompUnitAST(<<VarDeclAST(TRUE,
          <<VarDefAST(TRUE, IdAST(3, "var_t", TRUE, <<>>),
                      InitValAST("var_t", <<NumAST(5)>>)),
            VarDefAST(TRUE, IdAST(7, "var_t", TRUE, <<>>),
                      InitValAST("var_t", <<NumAST(9)>>))>>)>>)

\* C10: a failing parse emits exactly one diagnostic through
\* error->display_err before it halts, a successful parse none.
C10_OneDiagnosticPerFailure ==
    /\ status = "failed" => errs = 1
    /\ status = "done" => errs = 0

----------------------------------------------------------------------------
(* The token cursor (Spec).                                                 *)

\* C11: the token cursor never backtracks: the input is never changed, the
\* index of the lookahead never decreases along a run, the call of next() in
\* Parser::parsing moves it by exactly one token, every iteration of the
\* driver loop that returns has moved it forward, and it moves only while the
\* parser runs.
C11_CursorNeverBacktracks ==
    [][/\ toks' = toks
       /\ pos' >= pos
       /\ status = "init" => pos' = pos + 1
       /\ (status = "running" /\ status' = "running") => pos' > pos
       /\ status \in {"done", "failed"} => pos' = pos
      ]_pvars

\* a program of two declarations has been parsed and the cursor stands
\* behind the last token
C11_Witness ==
    /\ status = "done"
    /\ Len(nodes) = 2
    /\ Len(toks) >= 6
    /\ pos = Len(toks) + 1

----------------------------------------------------------------------------
(* SpecCtrl: Parser::statement applied to break, continue and return        *)
(* statements.                                                              *)

CtrlTags ==
    {"KW_BREAK", "KW_CONTINUE", "KW_RETURN", "ID", "NUM", "ADD", "SEMICON"}

InitCtrl ==
    /\ InputOf({<<t>> : t \in CtrlTags}, MaxCtrlLen)
    /\ eofWithLast = FALSE
    /\ InitCursor

NextCtrl == LoadFirst \/ CallStatement

SpecCtrl == InitCtrl /\ [][NextCtrl]_pvars

\* the Control kind named by a keyword
KeywordKind(tag) ==
    CASE tag = "KW_BREAK"    -> "break_c"
      [] tag = "KW_CONTINUE" -> "continue_c"
      [] tag = "KW_RETURN"   -> "return_c"
      [] OTHER               -> "none"

\* C12: the kind of every Control node is the keyword that introduced the
\* statement, and only a Control of kind return carries a value expression:
\* break or continue followed by anything but the terminator gives no Control
\* node with an expression or of kind return.
C12_ControlKindIsKeyword ==
    (status = "done" /\ ret.stmt.kind = "Control") =>
        /\ ret.stmt.type = KeywordKind(toks[1].tag)
        /\ ret.stmt.returnStmt # Null => toks[1].tag = "KW_RETURN"

----------------------------------------------------------------------------
(* Function bodies (Spec).                                                  *)

\* C13: Parser::block consumes an opening brace and nothing else as its first
\* token: the body of every function of a returned tree starts at a `{`, the
\* token next to the `)` of its header (the checked headers have no
\* parameters: name ( )), and a header whose `)` is followed by any other
\* token makes the parse fail.
C13_BlockStartsAtBrace ==
    /\ status = "done" =>
          \A f \in NodesOfKind(ret, "FuncDef") :
              /\ toks[f.name + 2].tag = "RPAREN"
              /\ Tok(f.name + 3).tag = "LBRACE"
    /\ (/\ status \in {"done", "failed"}
        /\ StartsWith(<<"KW_INT", "ID", "LPAREN", "RPAREN">>)
        /\ Tok(5).tag # "LBRACE") =>
          status = "failed"

----------------------------------------------------------------------------
(* SpecRel: Parser::binary_or applied to relational expressions.            *)

RelTags == {"NUM", "ID", "LT", "GT", "GE", "LE", "ADD"}

InitRel ==
    /\ InputOf({<<t>> : t \in RelTags}, MaxRelLen)
    /\ eofWithLast = FALSE
    /\ InitCursor

NextRel == LoadFirst \/ CallBinaryOr

SpecRel == InitRel /\ [][NextRel]_pvars

\* C14: the relational tier folds a Binary node for gt, ge and le only: no
\* returned tree holds a Binary with operator lt, no `<` is ever consumed by
\* a parse that returns, and a `<` in the lookahead ends the relational loop
\* where it stands, so `1 < 3` returns the left operand alone with `<` left
\* in the lookahead, while `1 > 3`, `1 >= 3` and `1 <= 3` are one Binary.
C14_NoLessThan ==
    status = "done" =>
        /\ \A b \in NodesOfKind(ret, "Binary") :
              b.op \in {"gt_op", "ge_op", "le_op", "add_op"}
        /\ \A i \in 1..(pos - 1) : Tok(i).tag # "LT"
        /\ StartsWith(<<"NUM", "LT">>) => ret = NumAST(1) /\ pos = 2
        /\ \A t \in {"GT", "GE", "LE"} :
              TagsOf(toks) = <<"NUM", t, "NUM">> =>
                  ret = BinaryAST(tag_to_op(t), NumAST(1), NumAST(3))

\* 1 < 3 has been parsed: the result is Num 1 and the lookahead is the `<`
C14_Witness ==
    /\ status = "done"
    /\ TagsOf(toks) = <<"NUM", "LT", "NUM">>
    /\ ret = NumAST(1)
    /\ Tok(pos).tag = "LT"

----------------------------------------------------------------------------
(* SpecParen: Parser::binary_or applied to expressions with parentheses.    *)

ParenChunks ==
    {<<"NUM">>, <<"LPAREN">>, <<"RPAREN">>, <<"ADD", "NUM">>, <<"MUL">>,
     <<"EQU">>}

InitParen ==
    /\ InputOf(ParenChunks, MaxParenChunks)
    /\ eofWithLast = FALSE
    /\ InitCursor

NextParen == LoadFirst \/ CallBinaryOr

SpecParen == InitParen /\ [][NextParen]_pvars

\* the number of tokens with one of the tags ts among the tokens a..b
CountTags(ts, a, b) ==
    Cardinality({i \in a..b : i <= Len(toks) /\ toks[i].tag \in ts})

\* C15: `( E )` is parsed by consuming both parentheses around an expression
\* of the additive level and returning the tree of E itself: a returned tree
\* has one Num per number and one Binary (Unary for a prefix `+`) per operator
\* consumed and no node for a parenthesis, the parentheses consumed are balanced, an operator
\* below the additive tier is consumed only outside all parentheses,
\* (1+2)*3 is Binary(mul, Binary(add, 1, 2), 3), and anything but `)` after
\* the inner expression ends the parse with exit(102).
C15_ParenthesesReturnInner ==
    /\ status = "done" =>
          /\ \A n \in NodesOf(ret) : n.kind \in {"Num", "Binary", "Unary"}
          /\ Cardinality(NodesOfKind(ret, "Num"))
                = CountTags({"NUM"}, 1, pos - 1)
          /\ Cardinality(NodesOfKind(ret, "Binary"))
                + Cardinality(NodesOfKind(ret, "Unary"))
                = CountTags({"ADD", "MUL", "EQU"}, 1, pos - 1)
          /\ CountTags({"LPAREN"}, 1, pos - 1)
                = CountTags({"RPAREN"}, 1, pos - 1)
          /\ \A i \in 1..(pos - 1) :
                Tok(i).tag = "EQU" =>
                    CountTags({"LPAREN"}, 1, i) = CountTags({"RPAREN"}, 1, i)
          /\ TagsOf(toks) = <<"LPAREN", "NUM", "RPAREN">> =>
                ret = NumAST(2) /\ pos = 4
          /\ TagsOf(toks)
                = <<"LPAREN", "NUM", "ADD", "NUM", "RPAREN", "MUL", "NUM">> =>
                ret = BinaryAST("mul_op",
                          BinaryAST("add_op", NumAST(2), NumAST(4)),
                          NumAST(7))
    /\ (/\ status \in {"done", "failed"}
        /\ StartsWith(<<"LPAREN", "NUM">>)
        /\ Tok(3).tag \notin {"RPAREN", "ADD", "MUL"}) =>
          /\ status = "failed"
          /\ exitCode = 102

\* 3*(1+2) has been parsed: the right operand of the product is the sum
C15_Witness ==
    /\ status = "done"
    /\ TagsOf(toks) = <<"NUM", "MUL", "LPAREN", "NUM", "ADD", "NUM", "RPAREN">>
    /\ ret = BinaryAST("mul_op", NumAST(1),
                 BinaryAST("add_op", NumAST(4), NumAST(6)))
    /\ pos = 8

----------------------------------------------------------------------------
(* SpecParam: the driver applied to function headers with parameters and to *)
(* variable declarations, with empty and non-empty bracket groups.          *)

EmptyDim == <<"LBRACKET", "RBRACKET">>

RECURSIVE JoinParams(_)
\* the parameters `int ID groups`, separated by commas; gss gives the bracket
\* groups of each parameter
JoinParams(gss) ==
    IF gss = <<>> THEN <<>>
    ELSE IF Len(gss) = 1 THEN IntId \o Flatten(Head(gss))
    ELSE IntId \o Flatten(Head(gss)) \o <<"COMMA">> \o JoinParams(Tail(gss))

\* the input is one declaration `[const] int ID groups [= NUM] ;`, at top
\* level (followed or not by a stray `;`) or as the body of a function
DeclInput(gs) ==
    \E c \in {IntId, ConstIntId} : \E init \in {<<>>, AssignNum} :
        \/ \E tail \in {<<>>, <<"SEMICON">>} :
              toks = MkToks(c \o Flatten(gs) \o init \o <<"SEMICON">> \o tail)
        \/ toks = MkToks(VoidOpen \o c \o Flatten(gs) \o init
                            \o <<"SEMICON", "RBRACE">>)

\* the input is one function `type ID ( parameters ) { }`
HeaderInput(gss) ==
    \E ty \in {"KW_INT", "KW_VOID"} :
        toks = MkToks(<<ty, "ID", "LPAREN">> \o JoinParams(gss)
                         \o <<"RPAREN", "LBRACE", "RBRACE">>)

InitParam ==
    /\ \/ \E n \in 0..MaxParams :
             \E gss \in [1..n -> UNION {[1..k -> {EmptyDim, Dim}] :
                                           k \in 0..MaxParamGroups}] :
                 HeaderInput(gss)
       \/ \E k \in 0..MaxParamGroups :
             \E gs \in [1..k -> {EmptyDim, Dim}] : DeclInput(gs)
    /\ eofWithLast \in BOOLEAN
    /\ InitCursor

SpecParam == InitParam /\ [][Next]_pvars

\* the number of bracket groups after the parameter name at token n, the
\* first of them empty
ParamGroupsAfter(n) ==
    IF Tok(n + 1).tag = "LBRACKET" /\ Tok(n + 2).tag = "RBRACKET"
    THEN 1 + DimGroupsAfter(n + 2)
    ELSE 0

\* C16: an empty bracket pair is accepted only as the first dimension of a
\* function parameter: every `[ ]` consumed by a parse that returns stands
\* right after the name of a parameter; the Id of such a parameter is an
\* array whose dimensions are the sentinel Num(0) followed by one expression
\* per further group, in order, and a parameter without brackets is a
\* scalar; no variable definition has the sentinel among its dimensions; a
\* parameter whose first group is not empty ends the parse with exit(997)
\* and an empty pair in a variable definition makes it fail.
C16_EmptyBracketsOnlyInParams ==
    /\ status = "done" =>
          /\ \A i \in 1..(pos - 1) :
                (Tok(i).tag = "LBRACKET" /\ Tok(i + 1).tag = "RBRACKET") =>
                    /\ i >= 4
                    /\ toks[i - 1].tag = "ID"
                    /\ toks[i - 2].tag = "KW_INT"
                    /\ toks[i - 3].tag \in {"LPAREN", "COMMA"}
          /\ \A f \in NodesOfKind(ret, "FuncDef") :
                \A a \in 1..Len(f.params) :
                    LET p == f.params[a]
                        k == ParamGroupsAfter(p.name)
                    IN  /\ p.kind = "Id"
                        /\ toks[p.name].tag = "ID"
                        /\ p.isConst = FALSE
                        /\ p.type = IF k > 0 THEN "array_t" ELSE "var_t"
                        /\ Len(p.dim) = k
                        /\ k > 0 => p.dim[1] = NumAST(0)
                        /\ \A j \in 2..k : p.dim[j] = NumAST(p.name + 3 * j - 2)
          /\ \A d \in NodesOfKind(ret, "VarDef") :
                \A j \in 1..Len(d.var.dim) : d.var.dim[j] # NumAST(0)
    /\ (/\ status \in {"done", "failed"}
        /\ \E ty \in {"KW_INT", "KW_VOID"} :
              StartsWith(<<ty, "ID", "LPAREN", "KW_INT", "ID", "LBRACKET",
                           "NUM">>)) =>
          /\ status = "failed"
          /\ exitCode = 997
    /\ (/\ status \in {"done", "failed"}
        /\ \/ StartsWith(IntId \o EmptyDim)
           \/ StartsWith(ConstIntId \o EmptyDim)
           \/ StartsWith(VoidOpen \o IntId \o EmptyDim)
           \/ StartsWith(IntId \o Dim \o EmptyDim)) =>
          status = "failed"

\* int f ( int a [ ] [ 2 ] , int b ) { } has been parsed: a is an array with
\* dimensions Num(0), Num 2 and b a scalar
C16_Witness ==
    /\ status = "done"
    /\ TagsOf(toks) = <<"KW_INT", "ID", "LPAREN">> \o IntId \o EmptyDim \o Dim
                         \o <<"COMMA">> \o IntId
                         \o <<"RPAREN", "LBRACE", "RBRACE">>
    /\ ret = CompUnitAST(<<FuncDefAST("int_t", 2,
                 <<IdAST(5, "array_t", FALSE, <<NumAST(0), NumAST(9)>>),
                   IdAST(13, "var_t", FALSE, <<>>)>>,
                 BlockAST(<<>>))>>)

----------------------------------------------------------------------------
(* Termination (SpecLive): the parser is one sequential thread of control,  *)
(* which takes its next step whenever it has one.                           *)

\* every program of up to MaxLiveChunks pieces of ProgChunks and DeclChunks
InitLive ==
    /\ InputOf(ProgChunks \cup DeclChunks, MaxLiveChunks)
    /\ eofWithLast \in BOOLEAN
    /\ InitCursor

SpecLive == InitLive /\ [][Next]_pvars /\ WF_pvars(Next)

\* C17: on every finite token sequence followed by end-of-stream the parser
\* eventually returns a CompUnit or halts in the failure state, and stays
\* there; this includes an end-of-stream inside an unclosed block.
C17_Terminates == <>[](status \in {"done", "failed"})

\* void f ( ) { followed by end-of-stream: the block loop has met the end
\* token and the parse has halted in the failure state
C17_Witness ==
    /\ status = "failed"
    /\ TagsOf(toks) = VoidOpen
    /\ pos = Len(toks) + 1
    /\ exitCode = 55

----------------------------------------------------------------------------
(* The end of the input (Spec).                                             *)

\* C18: the driver returns the CompUnit only when every token of the input
\* has been consumed by a grammar rule: when the loop is left the lookahead
\* is the end token, not a token of the input.
C18_NoTrailingTokenDropped ==
    status = "done" => pos > Len(toks)

====
